---- MODULE Spec2Model ----
(***************************************************************************)
(* A model of psithuros/axis_names.py (axis inference, auto_xmap and       *)
(* xmapped_init) and of levanter/callbacks.py (the log_memory_usage hook). *)
(*                                                                         *)
(* Python objects are records tagged by the field k.  A raised exception   *)
(* is the record Raise(exc): an operator that models a Python function     *)
(* returns either its result or the exception that left it.                *)
(***************************************************************************)
EXTENDS Integers, Sequences, FiniteSets

VARIABLES
    \* ---- axis inference (infer_leaf_axes, infer_named_axes) ----
    tpe,            \* the type handed to the inference functions
    value,          \* the runtime value handed to infer_named_axes
    leaf_axes,      \* what infer_leaf_axes(tpe) returned, NotRun before the call
    named_axes,     \* what infer_named_axes(value, tpe) returned
    module_axes,    \* what infer_named_axes_from_module(value) returned
    \* ---- a call of a wrapper made by xmapped_init or auto_xmap ----
    cls,                 \* xmapped_init: the wrapped Module class; auto_xmap: fun
    sig,                 \* inspect.signature of cls.__init__ / of fun
    static_argnums,      \* xmapped_init: after _ensure_tuple
    static_kwarg_names,  \* xmapped_init: after _ensure_tuple
    axis_sizes,          \* the tables the wrapper was made with
    axis_resources,
    backend,
    args,                \* the caller's positional arguments
    kwargs,              \* the caller's keyword arguments
    pc,                  \* where the wrapper call is
    bound_args,          \* xmapped_init: BoundArguments.arguments
    dynamic_args,
    dynamic_arg_shapes,  \* auto_xmap: arg_shapes
    dynamic_arg_names,
    out_axes,            \* xmapped_init: out_axes; auto_xmap: return_axes
    xmap_calls,          \* the calls made through xmap, in order
    cls_calls,           \* every call of cls(...) / fun(...): what it received and made
    infer_log,           \* the parameters infer_named_axes was run on
    results_treedefs,    \* auto_xmap: the treedef function_to_xmap captured
    result,              \* what the wrapper returned or raised
    \* ---- log_memory_usage: the sampling thread and the hook ----
    sampler_pc,             \* where the thread inner() is: "save", "writing", "rename", "sleep"
    inodes,                 \* the files ever created: inodes[i] = chunks written into file i
    new_file,               \* the name tempfile_name + ".new": NoneV or the file it names
    prof_file,              \* the name tempfile_name: NoneV or the file it names
    pprof_fd,               \* the file the running pprof has open: NotRun when no pprof
                            \* runs, NoneV when the path named no file
    snapshots,              \* how many snapshots the thread has started
    go_installed,           \* whether the go tool can be started on this host
    log_individual_devices, \* the hook's option
    step,                   \* how many times the hook was called
    training,               \* "running", or "aborted" once a hook has raised
    hook_log,               \* one entry per call of the hook
    metrics,                \* what levanter.tracker.log_metrics received
    warnings                \* how many warnings were emitted

inferVars == <<tpe, value, leaf_axes, named_axes, module_axes>>

wrapVars == <<cls, sig, static_argnums, static_kwarg_names, axis_sizes, axis_resources,
              backend, args, kwargs, pc, bound_args, dynamic_args, dynamic_arg_shapes,
              dynamic_arg_names, out_axes, xmap_calls, cls_calls, infer_log,
              results_treedefs, result>>

memVars == <<sampler_pc, inodes, new_file, prof_file, pprof_fd, snapshots, go_installed,
             log_individual_devices, step, training, hook_log, metrics, warnings>>

vars == <<inferVars, wrapVars, memVars>>

-----------------------------------------------------------------------------
(* Bounds of the model *)

\* Largest number of fields of an enumerated record-structure (Module) class.
MaxFields == 2

\* Largest number of constructor / function parameters (self not counted).
MaxParams == 2

\* Largest number of training steps (calls of the memory hook) followed.
MaxSteps == 3

\* Largest number of snapshots the sampling thread takes.
MaxSnapshots == 2

\* Number of writes that put one snapshot into the ".new" file.
SnapshotChunks == 2

-----------------------------------------------------------------------------
(* Python values *)

NotRun == [k |-> "notrun"]
Raise(exc) == [k |-> "raise", exc |-> exc]
IsRaise(x) == x.k = "raise"

Str(s) == [k |-> "str", s |-> s]
Ellipsis == [k |-> "Ellipsis"]
NdArray == [k |-> "ndarray"]
Tracer == [k |-> "tracer"]
PyLeaf(v) == [k |-> "leaf", v |-> v]
NoneV == [k |-> "None"]
TupleV(items) == [k |-> "tuple", items |-> items]
ListV(items) == [k |-> "list", items |-> items]
NamedTupleV(items, ann) == [k |-> "namedtuple", items |-> items, ann |-> ann]
ModuleV(fields) == [k |-> "module", fields |-> fields]

\* dataclass AxisNames: one field, names, a tuple of axis names
AxisNames(names) == [k |-> "AxisNames", names |-> names]

\* (mutant) a concat that puts the other's names first
AxisNames_concat_Swapped(self, other) ==
    IF other = NoneV THEN self
    ELSE AxisNames(other.names \o self.names)

\* AxisNames.concat
AxisNames_concat(self, other) ==
    IF other = NoneV THEN self
    ELSE AxisNames(self.names \o other.names)

\* UnnamedAxes = AxisNames(names=(...,))
UnnamedAxes == AxisNames(<<Ellipsis>>)

-----------------------------------------------------------------------------
(* Types and annotations *)

NoneT == [k |-> "NoneType"]       \* no type hint (tpe is None)
ArrayT == [k |-> "Array"]         \* the bare Array class
OpaqueT == [k |-> "Opaque"]       \* any other type: int, Optional[...], Tuple[...]
Doc == [k |-> "Doc"]              \* Annotated metadata that is no AxisNames
AnnotatedT(base, meta) == [k |-> "Annotated", base |-> base, meta |-> meta]
ModuleT(fields) == [k |-> "Module", fields |-> fields]
NamedTupleT(ann) == [k |-> "NamedTupleT", ann |-> ann]

\* Array.__class_getitem__: Array["x"] and Array["x", "y"] are AxisNames
Array_class_getitem(item) ==
    AxisNames(IF item.k # "tuple" THEN <<item>> ELSE item.items)

\* Shaped.__class_getitem__ on (shapes, tpe): typing.Annotated[tpe, AxisNames(shapes)].
\* typing.Annotated flattens a nested Annotated into one with the metadata appended.
Shaped_class_getitem(shapes, t) ==
    LET names == IF shapes.k # "tuple" THEN <<shapes>> ELSE shapes.items
    IN  IF t.k = "Annotated" THEN AnnotatedT(t.base, t.meta \o <<AxisNames(names)>>)
        ELSE AnnotatedT(t, <<AxisNames(names)>>)

IsAxisNames(s) == s.k = "AxisNames"

\* dataclasses.fields(cls) of a Module class: name, declared type, static flag
Field(name, t, static) == [name |-> name, type |-> t, static |-> static]
\* the same field of an instance, with its value
FieldV(name, t, static, v) == [name |-> name, type |-> t, static |-> static, value |-> v]

\* type(mod): the class of a Module instance
ClassOf(mod) ==
    ModuleT([i \in DOMAIN mod.fields |->
                Field(mod.fields[i].name, mod.fields[i].type, mod.fields[i].static)])

-----------------------------------------------------------------------------
(* Sequence helpers *)

RECURSIVE Flatten(_)
Flatten(ss) == IF ss = <<>> THEN <<>> ELSE Head(ss) \o Flatten(Tail(ss))

\* the first exception raised while evaluating the elements in order, or NoneV
RECURSIVE FirstRaise(_)
FirstRaise(ss) ==
    IF ss = <<>> THEN NoneV
    ELSE IF IsRaise(Head(ss)) THEN Head(ss)
    ELSE FirstRaise(Tail(ss))

SeqsUpTo(S, n) == UNION {[1..m -> S] : m \in 1..n}

-----------------------------------------------------------------------------
(* The generic tree-flatten mechanism (jax.tree_util) *)

\* (mutant) a flatten that takes the static fields too
DynIdx_All(fields) == [i \in DOMAIN fields |-> i]

\* Module.tree_flatten: the values of the non-static fields, in field order
DynIdx(fields) == SelectSeq([i \in DOMAIN fields |-> i], LAMBDA i : ~fields[i].static)
dynamic_field_names(mod) == [j \in DOMAIN DynIdx(mod.fields) |-> mod.fields[DynIdx(mod.fields)[j]].name]
dynamic_values(mod) == [j \in DOMAIN DynIdx(mod.fields) |-> mod.fields[DynIdx(mod.fields)[j]].value]

\* Module.tree_unflatten(aux, values): the instance with its dynamic values replaced
tree_unflatten(mod, values) ==
    LET pos(i) == CHOOSE j \in DOMAIN DynIdx(mod.fields) : DynIdx(mod.fields)[j] = i
    IN  ModuleV([i \in DOMAIN mod.fields |->
            IF mod.fields[i].static THEN mod.fields[i]
            ELSE [mod.fields[i] EXCEPT !.value = values[pos(i)]]])

\* (mutant) all_leaves(value) in place of all_leaves([value]): a container of
\* leaves passes for a leaf
all_leaves_Unwrapped(v) ==
    \/ v.k \in {"ndarray", "tracer", "leaf", "str", "Ellipsis", "AxisNames"}
    \/ /\ v.k \in {"tuple", "list"}
       /\ \A i \in DOMAIN v.items :
             v.items[i].k \in {"ndarray", "tracer", "leaf", "str", "Ellipsis", "AxisNames"}

\* all_leaves([value]): the value is a leaf of the pytree mechanism
all_leaves(v) == v.k \in {"ndarray", "tracer", "leaf", "str", "Ellipsis", "AxisNames"}

\* (mutant) a registry without the NoneType handler
registered_NoNone(v) == v.k \in {"tuple", "list"}

\* _registry.get(type(value)): tuple, list, dict and NoneType have handlers
registered(v) == v.k \in {"tuple", "list", "None"}

\* jax.tree_leaves
RECURSIVE tree_leaves(_)
tree_leaves(v) ==
    IF v.k = "None" THEN <<>>
    ELSE IF v.k \in {"tuple", "list", "namedtuple"}
    THEN Flatten([i \in DOMAIN v.items |-> tree_leaves(v.items[i])])
    ELSE IF v.k = "module"
    THEN Flatten([j \in DOMAIN dynamic_values(v) |-> tree_leaves(dynamic_values(v)[j])])
    ELSE <<v>>

\* jax.tree_map(lambda x: prefix_names.concat(x), tree)
RECURSIVE tree_map_concat(_, _)
tree_map_concat(prefix_names, tree) ==
    IF tree.k = "None" THEN tree
    ELSE IF tree.k \in {"tuple", "list", "namedtuple"}
    THEN [tree EXCEPT !.items = [i \in DOMAIN tree.items |-> tree_map_concat(prefix_names, tree.items[i])]]
    ELSE IF tree.k = "module"
    THEN tree_unflatten(tree, [j \in DOMAIN dynamic_values(tree) |->
                                  tree_map_concat(prefix_names, dynamic_values(tree)[j])])
    ELSE AxisNames_concat(prefix_names, tree)

\* unwrap_axis_names: jax.tree_map(lambda x: x.names if isinstance(x, AxisNames) else x, tree)
RECURSIVE unwrap_axis_names(_)
unwrap_axis_names(tree) ==
    IF tree.k = "None" THEN tree
    ELSE IF tree.k \in {"tuple", "list", "namedtuple"}
    THEN [tree EXCEPT !.items = [i \in DOMAIN tree.items |-> unwrap_axis_names(tree.items[i])]]
    ELSE IF tree.k = "module"
    THEN tree_unflatten(tree, [j \in DOMAIN dynamic_values(tree) |->
                                  unwrap_axis_names(dynamic_values(tree)[j])])
    ELSE IF tree.k = "AxisNames" THEN TupleV(tree.names)
    ELSE tree

-----------------------------------------------------------------------------
(* infer_leaf_axes: the leaves of a type *)

\* prefix_names + n, where prefix_names is a tuple: tuple.__add__ accepts only a tuple
tuple_add(prefix_names, n) ==
    IF n.k = "tuple" THEN TupleV(prefix_names \o n.items)
    ELSE Raise("TypeError")

RECURSIVE infer_leaf_axes(_)
infer_leaf_axes(t) ==
    IF t.k = "Annotated"
    THEN LET shapeses == SelectSeq(t.meta, IsAxisNames)
         IN  IF Len(shapeses) # 1 THEN Raise("ValueError")
             ELSE LET prefix_names == shapeses[1].names
                      recursive_leaf_names == infer_leaf_axes(t.base)
                  IN  IF IsRaise(recursive_leaf_names) THEN recursive_leaf_names
                      ELSE LET out == [i \in DOMAIN recursive_leaf_names.items |->
                                          tuple_add(prefix_names, recursive_leaf_names.items[i])]
                           IN  IF FirstRaise(out) # NoneV THEN FirstRaise(out) ELSE ListV(out)
    ELSE IF t.k = "Module"
    THEN LET dyn == DynIdx(t.fields)
             shapes == [j \in DOMAIN dyn |-> infer_leaf_axes(t.fields[dyn[j]].type)]
         IN  IF FirstRaise(shapes) # NoneV THEN FirstRaise(shapes)
             ELSE ListV(Flatten([j \in DOMAIN shapes |-> shapes[j].items]))
    ELSE IF t.k = "AxisNames" THEN ListV(<<t>>)
    ELSE IF t.k = "Array" THEN ListV(<<UnnamedAxes>>)
    ELSE ListV(<<UnnamedAxes>>)

-----------------------------------------------------------------------------
(* infer_named_axes: the axis-spec tree of a value *)

is_named_tuple(x) == x.k = "namedtuple"

RECURSIVE infer_named_axes(_, _)
RECURSIVE infer_named_axes_from_module(_)

infer_named_axes(v, t) ==
    IF t.k = "Annotated"
    THEN LET shapeses == SelectSeq(t.meta, IsAxisNames)
         IN  IF Len(shapeses) # 1 THEN Raise("ValueError")
             ELSE LET prefix_names == shapeses[1]
                      recursive_leaf_names == infer_named_axes(v, t.base)
                  IN  IF IsRaise(recursive_leaf_names) THEN recursive_leaf_names
                      ELSE IF recursive_leaf_names = NoneV THEN prefix_names
                      ELSE tree_map_concat(prefix_names, recursive_leaf_names)
    ELSE IF v.k = "module" THEN infer_named_axes_from_module(v)
    ELSE IF t.k = "AxisNames" THEN t
    ELSE IF v.k \in {"ndarray", "tracer"} THEN UnnamedAxes
    ELSE IF t.k = "Array" THEN UnnamedAxes
    ELSE IF all_leaves(v) THEN UnnamedAxes
    ELSE IF is_named_tuple(v)
    THEN LET n == IF Len(v.items) < Len(v.ann) THEN Len(v.items) ELSE Len(v.ann)
             child_axes == [i \in 1..n |-> infer_named_axes(v.items[i], v.ann[i])]
         IN  IF FirstRaise(child_axes) # NoneV THEN FirstRaise(child_axes)
             ELSE IF n # Len(v.items) THEN Raise("TypeError")
             ELSE [v EXCEPT !.items = child_axes]
    ELSE IF ~registered(v) THEN Raise("NotImplementedError")
    ELSE LET children == IF v.k = "None" THEN <<>> ELSE v.items
             child_axes == [i \in DOMAIN children |-> infer_named_axes(children[i], NoneT)]
         IN  IF FirstRaise(child_axes) # NoneV THEN FirstRaise(child_axes)
             ELSE IF v.k = "None" THEN NoneV
             ELSE [v EXCEPT !.items = child_axes]

infer_named_axes_from_module(mod) ==
    LET names == dynamic_field_names(mod)
        vals == dynamic_values(mod)
        fields == [i \in DOMAIN mod.fields |-> mod.fields[i].name]
        FieldOf(name) == mod.fields[CHOOSE i \in DOMAIN mod.fields : mod.fields[i].name = name]
        missing == {j \in DOMAIN names : \A i \in DOMAIN fields : fields[i] # names[j]}
        named_shapes == [j \in DOMAIN names |->
                            IF j \in missing THEN Raise("ValueError")
                            ELSE infer_named_axes(vals[j], FieldOf(names[j]).type)]
    IN  IF FirstRaise(named_shapes) # NoneV THEN FirstRaise(named_shapes)
        ELSE tree_unflatten(mod, named_shapes)

-----------------------------------------------------------------------------
(* The inputs the inference functions are run on *)

Batch == Str("batch")
Hidden == Str("hidden")
Shard == Str("shard")

FieldNames == <<"a", "b", "c", "d">>

\* Pair: a: Array["batch"], b: Array["batch", "hidden"]
PairT ==
    ModuleT(<<Field("a", Array_class_getitem(Batch), FALSE),
              Field("b", Array_class_getitem(TupleV(<<Batch, Hidden>>)), FALSE)>>)
PairV ==
    ModuleV(<<FieldV("a", Array_class_getitem(Batch), FALSE, NdArray),
              FieldV("b", Array_class_getitem(TupleV(<<Batch, Hidden>>)), FALSE, NdArray)>>)

\* a typing.NamedTuple with fields x: Array["batch"], y: int
PointAnn == <<Array_class_getitem(Batch), OpaqueT>>
PointV == NamedTupleV(<<NdArray, PyLeaf(0)>>, PointAnn)

\* a field of an enumerated class: (declared type, static flag, value).  Beside the
\* well-typed fields there are a field that holds None, fields whose value has more
\* structure than the declared type, and an annotation that carries no AxisNames.
FieldCases ==
    {<<Array_class_getitem(Batch), FALSE, NdArray>>,
     <<Array_class_getitem(TupleV(<<Batch, Hidden>>)), FALSE, NdArray>>,
     <<ArrayT, FALSE, NdArray>>,
     <<OpaqueT, FALSE, PyLeaf(0)>>,
     <<OpaqueT, FALSE, NoneV>>,
     <<OpaqueT, FALSE, TupleV(<<NdArray, NdArray>>)>>,
     <<Array_class_getitem(Batch), FALSE, TupleV(<<NdArray, NdArray>>)>>,
     <<Shaped_class_getitem(Shard, Array_class_getitem(Batch)), FALSE, NdArray>>,
     <<Shaped_class_getitem(Shard, OpaqueT), FALSE, NoneV>>,
     <<AnnotatedT(OpaqueT, <<Doc>>), FALSE, NdArray>>,
     <<PairT, FALSE, PairV>>,
     <<Shaped_class_getitem(Shard, PairT), FALSE, PairV>>,
     <<OpaqueT, TRUE, PyLeaf(0)>>,
     <<Array_class_getitem(Batch), TRUE, NdArray>>}

MkModule(cs) ==
    ModuleV([i \in DOMAIN cs |-> FieldV(FieldNames[i], cs[i][1], cs[i][2], cs[i][3])])

\* instances of every class with 1..MaxFields fields drawn from FieldCases
Modules == {MkModule(cs) : cs \in SeqsUpTo(FieldCases, MaxFields)}

\* values with no record structure in them, for calls without a type hint
GenericValues ==
    LET atoms == {NdArray, PyLeaf(0), NoneV, TupleV(<<NdArray, NoneV>>)}
    IN  atoms \cup {TupleV(s) : s \in SeqsUpTo(atoms, 2)}

\* (value, type) pairs handed to the inference functions
InferInputs ==
    {<<m, ClassOf(m)>> : m \in Modules}
    \cup {<<m, NoneT>> : m \in Modules}
    \cup {<<m, Shaped_class_getitem(Shard, ClassOf(m))>> : m \in Modules}
    \cup {<<c[3], c[1]>> : c \in FieldCases}
    \cup {<<v, NoneT>> : v \in GenericValues}
    \cup {<<TupleV(<<v, PairV>>), NoneT>> : v \in GenericValues}
    \cup {<<PointV, t>> : t \in {NoneT, NamedTupleT(PointAnn), Shaped_class_getitem(Shard, NamedTupleT(PointAnn))}}
    \cup {<<NamedTupleV(<<NdArray, PyLeaf(0)>>, <<AnnotatedT(OpaqueT, <<Doc>>), OpaqueT>>), NoneT>>}
    \cup {<<PairV, Shaped_class_getitem(Batch, Shaped_class_getitem(Shard, PairT))>>,
          <<PairV, AnnotatedT(PairT, <<Doc, AxisNames(<<Shard>>)>>)>>,
          <<PairV, AnnotatedT(PairT, <<>>)>>}

-----------------------------------------------------------------------------
(* Axis inference as a state machine: draw an input, run each function once *)

\* no wrapper is being called
WrapIdle ==
    /\ cls = NoneV /\ sig = NoneV
    /\ static_argnums = <<>> /\ static_kwarg_names = <<>>
    /\ axis_sizes = NoneV /\ axis_resources = NoneV /\ backend = NoneV
    /\ args = <<>> /\ kwargs = <<>>
    /\ pc = "none"
    /\ bound_args = NoneV
    /\ dynamic_args = <<>> /\ dynamic_arg_shapes = <<>> /\ dynamic_arg_names = <<>>
    /\ out_axes = NoneV
    /\ xmap_calls = <<>> /\ cls_calls = <<>> /\ infer_log = <<>>
    /\ results_treedefs = NoneV
    /\ result = NotRun

\* the memory hook was not made
MemIdle ==
    /\ sampler_pc = "none" /\ new_file = NoneV /\ prof_file = NoneV /\ snapshots = 0
    /\ inodes = <<>> /\ pprof_fd = NotRun
    /\ go_installed = FALSE /\ log_individual_devices = FALSE
    /\ step = 0 /\ training = "none" /\ hook_log = <<>> /\ metrics = {} /\ warnings = 0

\* no inference input is drawn
InferIdle ==
    /\ tpe = NoneT /\ value = NoneV
    /\ leaf_axes = NotRun /\ named_axes = NotRun /\ module_axes = NotRun

InitInfer ==
    /\ \E in \in InferInputs : value = in[1] /\ tpe = in[2]
    /\ leaf_axes = NotRun
    /\ named_axes = NotRun
    /\ module_axes = NotRun
    /\ WrapIdle
    /\ MemIdle

CallInferLeafAxes ==
    /\ leaf_axes = NotRun
    /\ tpe # NoneT
    /\ leaf_axes' = infer_leaf_axes(tpe)
    /\ UNCHANGED <<tpe, value, named_axes, module_axes, wrapVars, memVars>>

CallInferNamedAxes ==
    /\ named_axes = NotRun
    /\ named_axes' = infer_named_axes(value, tpe)
    /\ UNCHANGED <<tpe, value, leaf_axes, module_axes, wrapVars, memVars>>

CallInferNamedAxesFromModule ==
    /\ module_axes = NotRun
    /\ value.k = "module"
    /\ module_axes' = infer_named_axes_from_module(value)
    /\ UNCHANGED <<tpe, value, leaf_axes, named_axes, wrapVars, memVars>>

NextInfer ==
    \/ CallInferLeafAxes
    \/ CallInferNamedAxes
    \/ CallInferNamedAxesFromModule

SpecInfer == InitInfer /\ [][NextInfer]_vars

-----------------------------------------------------------------------------
(* Claims about axis inference, checked under SpecInfer *)

\* the AxisNames payloads of an Annotated type
Payloads(t) == SelectSeq(t.meta, IsAxisNames)

\* the leaves a prefix P makes of a leaf list: P's tokens followed by each leaf's
Prefixed(P, leaves) ==
    ListV([i \in DOMAIN leaves.items |-> AxisNames(P.names \o leaves.items[i].names)])

\* the value conforms to its declared type: it has no structure the type does not give
RECURSIVE WellTyped(_, _)
WellTyped(v, t) ==
    IF t.k = "Annotated" THEN WellTyped(v, t.base)
    ELSE IF t.k = "Module"
    THEN /\ v.k = "module"
         /\ ClassOf(v) = t
         /\ \A i \in DOMAIN v.fields :
                v.fields[i].static \/ WellTyped(v.fields[i].value, v.fields[i].type)
    ELSE IF t.k = "NamedTupleT"
    THEN /\ v.k = "namedtuple"
         /\ v.ann = t.ann
         /\ Len(v.items) = Len(v.ann)
         /\ \A i \in DOMAIN v.items : WellTyped(v.items[i], v.ann[i])
    ELSE IF t.k \in {"AxisNames", "Array"} THEN v.k = "ndarray"
    ELSE IF t.k = "Opaque" THEN v.k = "leaf"
    ELSE FALSE

\* the value's tree with every leaf replaced by UnnamedAxes
RECURSIVE AllUnnamed(_)
AllUnnamed(v) ==
    IF v.k = "None" THEN v
    ELSE IF v.k \in {"tuple", "list", "namedtuple"}
    THEN [v EXCEPT !.items = [i \in DOMAIN v.items |-> AllUnnamed(v.items[i])]]
    ELSE IF v.k = "module"
    THEN tree_unflatten(v, [j \in DOMAIN dynamic_values(v) |-> AllUnnamed(dynamic_values(v)[j])])
    ELSE UnnamedAxes

\* the value holds no record-structure instance and no named tuple
RECURSIVE NoRecord(_)
NoRecord(v) ==
    IF v.k \in {"module", "namedtuple"} THEN FALSE
    ELSE IF v.k \in {"tuple", "list"} THEN \A i \in DOMAIN v.items : NoRecord(v.items[i])
    ELSE TRUE

\* C6: infer_leaf_axes on an annotated wrapper with exactly one AxisNames P around a
\* base type B returns one leaf per leaf of infer_leaf_axes(B), in order, each P's
\* tokens followed by that leaf's tokens (Annotated[Pair, AxisNames(("shard",))]
\* gives ("shard","batch") and ("shard","batch","hidden")).
C6_AnnotatedLeafAxes ==
    (/\ leaf_axes # NotRun
     /\ tpe.k = "Annotated"
     /\ Len(Payloads(tpe)) = 1
     /\ ~IsRaise(infer_leaf_axes(tpe.base)))
    => leaf_axes = Prefixed(Payloads(tpe)[1], infer_leaf_axes(tpe.base))

\* C7 as stated: the axis-spec tree infer_named_axes_from_module(m) returns has
\* exactly as many leaves as m's own pytree decomposition, whatever the declared
\* types and the runtime values of m's fields.
C7_LeafCountConsistency_AsStated ==
    (module_axes # NotRun /\ ~IsRaise(module_axes))
    => Len(tree_leaves(module_axes)) = Len(tree_leaves(value))

\* the value agrees with its declared type where inference takes the type's word:
\* a value declared with an axis spec or the bare Array is a single leaf, and a
\* value under an annotated wrapper is not None
RECURSIVE Conforms(_, _)
Conforms(v, t) ==
    IF t.k = "Annotated" THEN v # NoneV /\ Conforms(v, t.base)
    ELSE IF v.k = "module"
    THEN \A i \in DOMAIN v.fields :
            v.fields[i].static \/ Conforms(v.fields[i].value, v.fields[i].type)
    ELSE IF t.k \in {"AxisNames", "Array"} THEN v.k \in {"ndarray", "tracer", "leaf"}
    ELSE IF v.k = "namedtuple"
    THEN /\ Len(v.items) = Len(v.ann)
         /\ \A i \in DOMAIN v.items : Conforms(v.items[i], v.ann[i])
    ELSE IF v.k \in {"tuple", "list"}
    THEN \A i \in DOMAIN v.items : Conforms(v.items[i], NoneT)
    ELSE TRUE

\* C7 as amended: for an instance whose field values agree with the declared types
\* (Conforms), the returned axis-spec tree has the shape of the instance's own
\* decomposition: one axis-spec leaf per dynamic leaf, in the same order.
C7_LeafCountConsistency ==
    (module_axes # NotRun /\ ~IsRaise(module_axes) /\ Conforms(value, ClassOf(value)))
    => /\ AllUnnamed(module_axes) = AllUnnamed(value)
       /\ Len(tree_leaves(module_axes)) = Len(tree_leaves(value))
       /\ \A i \in DOMAIN tree_leaves(module_axes) : tree_leaves(module_axes)[i].k = "AxisNames"

\* C7 witness: inference has returned for a conforming instance that holds a tuple
\* of two arrays in one field and a nested Pair in another
C7_Witness ==
    /\ module_axes # NotRun
    /\ ~IsRaise(module_axes)
    /\ value.k = "module"
    /\ Conforms(value, ClassOf(value))
    /\ Len(value.fields) = 2
    /\ value.fields[1].value = TupleV(<<NdArray, NdArray>>)
    /\ value.fields[2].value = PairV
    /\ Len(tree_leaves(module_axes)) = 4

\* C8: for a value constructible from its type alone, infer_leaf_axes(T) and the
\* flattened leaves of infer_named_axes(v, T) have the same length and the same
\* tokens at each position.
C8_TypeValueAgreement ==
    (leaf_axes # NotRun /\ named_axes # NotRun /\ WellTyped(value, tpe))
    => /\ ~IsRaise(leaf_axes)
       /\ ~IsRaise(named_axes)
       /\ leaf_axes.items = tree_leaves(named_axes)

\* C9 as stated: without a type hint, infer_named_axes never raises on a leaf or a
\* container the flatten mechanism recognizes, and returns UnnamedAxes or a tree of
\* the value's shape whose leaves are all UnnamedAxes.
C9_FallbackTotality_AsStated ==
    (named_axes # NotRun /\ tpe = NoneT)
    => named_axes = AllUnnamed(value)

\* C9 as amended: the same, for values that hold no record-structure instance and
\* no named tuple (those are inferred from their declared field types even without
\* a hint).
C9_FallbackTotality ==
    (named_axes # NotRun /\ tpe = NoneT /\ NoRecord(value))
    => named_axes = AllUnnamed(value)

\* C9 witness: a hint-less call on a nested generic container with a None inside
\* has returned.
C9_Witness ==
    /\ tpe = NoneT
    /\ value = TupleV(<<TupleV(<<NdArray, NoneV>>), PyLeaf(0)>>)
    /\ named_axes = TupleV(<<TupleV(<<UnnamedAxes, NoneV>>), UnnamedAxes>>)

-----------------------------------------------------------------------------
(* The parallel-execution transform (jax.experimental.maps.xmap), as far as the
   wrappers see it: a call is configured, runs its body once on traced arguments,
   and returns the body's result with the tracers made arrays again *)

Dict(id) == [k |-> "dict", id |-> id]
EmptyDict == Dict(0)

\* axis_sizes or {}
OrEmptyDict(x) == IF x = NoneV \/ x = EmptyDict THEN EmptyDict ELSE x

XmapCall(fun, in_axes, o_axes, sizes, resources, bk, call_args) ==
    [fun |-> fun, in_axes |-> in_axes, out_axes |-> o_axes, axis_sizes |-> sizes,
     axis_resources |-> resources, backend |-> bk, args |-> call_args,
     status |-> "running", returned |-> NotRun]

\* the values the transform hands to the body: every array leaf is a tracer
RECURSIVE Trace(_)
Trace(v) ==
    IF v.k \in {"tuple", "list", "namedtuple"}
    THEN [v EXCEPT !.items = [i \in DOMAIN v.items |-> Trace(v.items[i])]]
    ELSE IF v.k = "module"
    THEN tree_unflatten(v, [j \in DOMAIN dynamic_values(v) |-> Trace(dynamic_values(v)[j])])
    ELSE IF v.k = "None" THEN v
    ELSE Tracer

\* the values the transform returns: every tracer is an array
RECURSIVE Materialize(_)
Materialize(v) ==
    IF v.k \in {"tuple", "list", "namedtuple"}
    THEN [v EXCEPT !.items = [i \in DOMAIN v.items |-> Materialize(v.items[i])]]
    ELSE IF v.k = "module"
    THEN tree_unflatten(v, [j \in DOMAIN dynamic_values(v) |-> Materialize(dynamic_values(v)[j])])
    ELSE IF v.k = "tracer" THEN NdArray
    ELSE v

-----------------------------------------------------------------------------
(* Signatures and argument binding (inspect.Signature) *)

Param(name, annotation, has_default, default) ==
    [name |-> name, annotation |-> annotation, has_default |-> has_default, default |-> default]

\* the parameter self of cls.__init__: no annotation, no default
SelfParam == Param("self", OpaqueT, FALSE, NoneV)

ParamNames(parameters) == {parameters[i].name : i \in DOMAIN parameters}

\* sig.bind_partial(*pargs, **kw): the arguments given, by parameter name; parameters
\* that were not passed are absent (their defaults are not applied)
bind_partial(parameters, pargs, kw) ==
    IF Len(pargs) > Len(parameters) THEN Raise("TypeError")
    ELSE IF \E name \in DOMAIN kw :
                \/ name \notin ParamNames(parameters)
                \/ \E i \in 1..Len(pargs) : parameters[i].name = name
    THEN Raise("TypeError")
    ELSE [k |-> "BoundArguments",
          arguments |->
            [name \in {parameters[i].name : i \in 1..Len(pargs)} \cup DOMAIN kw |->
                IF name \in DOMAIN kw THEN kw[name]
                ELSE pargs[CHOOSE i \in 1..Len(pargs) : parameters[i].name = name]]]

\* the call cls(*pargs, **kw) itself binds: every parameter without a default is given
ConstructorAccepts(parameters, pargs, kw) ==
    LET b == bind_partial(parameters, <<NoneV>> \o pargs, kw)
    IN  /\ ~IsRaise(b)
        /\ \A i \in DOMAIN parameters :
              parameters[i].has_default \/ parameters[i].name \in DOMAIN b.arguments

\* bound_args.apply_defaults()
apply_defaults(parameters, arguments) ==
    [name \in DOMAIN arguments \cup {parameters[i].name : i \in {j \in DOMAIN parameters : parameters[j].has_default}} |->
        IF name \in DOMAIN arguments THEN arguments[name]
        ELSE parameters[CHOOSE i \in DOMAIN parameters : parameters[i].name = name].default]

-----------------------------------------------------------------------------
(* xmapped_init *)

\* _ensure_tuple
ensure_tuple(x) ==
    IF x = NoneV THEN <<>>
    ELSE IF x.k \in {"tuple", "list"} THEN x.items
    ELSE <<x>>

In(x, tuple) == \E i \in DOMAIN tuple : tuple[i] = x

\* (mutant) a parameter is static only by its position
IsStaticParam_ByPositionOnly(name, i, names, argnums) == In(PyLeaf(i), argnums)

\* the negation of line 294: name in static_kwarg_names or i in static_argnums
IsStaticParam(name, i, names, argnums) == In(Str(name), names) \/ In(PyLeaf(i), argnums)

\* the loop over sig.parameters (lines 283-297) from parameter number n on; acc holds
\* dynamic_args, dynamic_arg_shapes, dynamic_arg_names, the inference log and the
\* exception that ended the loop
RECURSIVE classify(_, _, _, _, _, _)
classify(parameters, arguments, names, argnums, n, acc) ==
    IF n > Len(parameters) \/ acc.raised # NoneV THEN acc
    ELSE LET name == parameters[n].name
             i == n - 2
         IN  IF name \notin DOMAIN arguments
             THEN [acc EXCEPT !.raised = Raise("KeyError")]
             ELSE IF IsStaticParam(name, i, names, argnums)
             THEN classify(parameters, arguments, names, argnums, n + 1, acc)
             ELSE LET arg == arguments[name]
                      shape == infer_named_axes(arg, parameters[n].annotation)
                  IN  IF IsRaise(shape)
                      THEN [acc EXCEPT !.raised = shape, !.log = Append(@, name)]
                      ELSE classify(parameters, arguments, names, argnums, n + 1,
                                    [acc EXCEPT !.args = Append(@, arg),
                                                !.shapes = Append(@, shape),
                                                !.names = Append(@, name),
                                                !.log = Append(@, name)])

\* cls(*bound_args.args[1:], **bound_args.kwargs): the generated __init__ of the
\* Module class stores each argument in the field of its name
Instantiate(c, arguments) ==
    ModuleV([i \in DOMAIN c.fields |->
                FieldV(c.fields[i].name, c.fields[i].type, c.fields[i].static,
                       arguments[c.fields[i].name])])

\* construct_object(*dynamic_args): bound_args.arguments after the update and
\* apply_defaults
construct_arguments(parameters, arguments, names, dyn) ==
    apply_defaults(parameters,
        [name \in DOMAIN arguments |->
            IF \E j \in DOMAIN names : names[j] = name
            THEN dyn[CHOOSE j \in DOMAIN names : names[j] = name]
            ELSE arguments[name]])

WithoutSelf(arguments) == [name \in DOMAIN arguments \ {"self"} |-> arguments[name]]

\* wrapper_function up to the first transform call (lines 279-301)
WrapperCall ==
    /\ pc = "start"
    /\ LET b == bind_partial(sig.parameters, <<NoneV>> \o args, kwargs)
       IN  IF IsRaise(b)
           THEN /\ pc' = "raised"
                /\ result' = b
                /\ UNCHANGED <<bound_args, dynamic_args, dynamic_arg_shapes,
                               dynamic_arg_names, infer_log>>
           ELSE LET acc == classify(sig.parameters, b.arguments, static_kwarg_names,
                                    static_argnums, 2,
                                    [args |-> <<>>, shapes |-> <<>>, names |-> <<>>,
                                     log |-> <<>>, raised |-> NoneV])
                IN  /\ bound_args' = b.arguments
                    /\ infer_log' = acc.log
                    /\ IF acc.raised # NoneV
                       THEN /\ pc' = "raised"
                            /\ result' = acc.raised
                            /\ UNCHANGED <<dynamic_args, dynamic_arg_shapes, dynamic_arg_names>>
                       ELSE /\ pc' = "phase1"
                            /\ dynamic_args' = acc.args
                            /\ dynamic_arg_shapes' = acc.shapes
                            /\ dynamic_arg_names' = acc.names
                            /\ UNCHANGED result
    /\ UNCHANGED <<cls, sig, static_argnums, static_kwarg_names, axis_sizes, axis_resources,
                   backend, args, kwargs, out_axes, xmap_calls, cls_calls, results_treedefs, inferVars, memVars>>

\* dynamic_arg_shapes_as_lists (line 301)
dynamic_arg_shapes_as_lists == unwrap_axis_names(ListV(dynamic_arg_shapes))

\* line 332: xmap(initial_xmap, in_axes=..., out_axes=[...], axis_sizes=...,
\* axis_resources=...)(*dynamic_args) is called
Phase1Issue ==
    /\ pc = "phase1"
    /\ xmap_calls' = Append(xmap_calls,
            XmapCall("initial_xmap", dynamic_arg_shapes_as_lists, ListV(<<Ellipsis>>),
                     axis_sizes, axis_resources, NoneV, dynamic_args))
    /\ pc' = "in_phase1"
    /\ UNCHANGED <<cls, sig, static_argnums, static_kwarg_names, axis_sizes, axis_resources,
                   backend, args, kwargs, bound_args, dynamic_args, dynamic_arg_shapes,
                   dynamic_arg_names, out_axes, cls_calls, infer_log, results_treedefs, result, inferVars, memVars>>

\* initial_xmap runs under the transform (lines 319-330)
Phase1Body ==
    /\ pc = "in_phase1"
    /\ LET traced == [j \in DOMAIN dynamic_args |-> Trace(dynamic_args[j])]
           arguments == construct_arguments(sig.parameters, bound_args, dynamic_arg_names, traced)
           inst == Instantiate(cls, arguments)
           axes == infer_named_axes(inst, cls)
       IN  /\ bound_args' = arguments
           /\ cls_calls' = Append(cls_calls, [arguments |-> WithoutSelf(arguments), inst |-> inst])
           /\ IF IsRaise(axes)
              THEN pc' = "raised" /\ result' = axes /\ UNCHANGED out_axes
              ELSE pc' = "phase1_ran" /\ out_axes' = axes /\ UNCHANGED result
    /\ UNCHANGED <<cls, sig, static_argnums, static_kwarg_names, axis_sizes, axis_resources,
                   backend, args, kwargs, dynamic_args, dynamic_arg_shapes,
                   dynamic_arg_names, xmap_calls, infer_log, results_treedefs, inferVars, memVars>>

\* (mutant) the captured out_axes are handed on without line 334
captured_out_axes_Wrapped(axes) == axes

\* line 334: out_axes = jax.tree_map(lambda x: x.names if isinstance(x, AxisNames) else x, out_axes)
captured_out_axes(axes) == unwrap_axis_names(axes)

\* the first transform call returns (initial_xmap returned None); line 334
Phase1Return ==
    /\ pc = "phase1_ran"
    /\ xmap_calls' = [xmap_calls EXCEPT ![1].status = "returned", ![1].returned = NoneV]
    /\ out_axes' = captured_out_axes(out_axes)
    /\ pc' = "phase2"
    /\ UNCHANGED <<cls, sig, static_argnums, static_kwarg_names, axis_sizes, axis_resources,
                   backend, args, kwargs, bound_args, dynamic_args, dynamic_arg_shapes,
                   dynamic_arg_names, cls_calls, infer_log, results_treedefs, result, inferVars, memVars>>

\* lines 344-346: f = xmap(function_to_xmap, in_axes=..., out_axes=out_axes, ...);
\* f(*dynamic_args) is called
Phase2Issue ==
    /\ pc = "phase2"
    /\ xmap_calls' = Append(xmap_calls,
            XmapCall("function_to_xmap", dynamic_arg_shapes_as_lists, out_axes,
                     axis_sizes, axis_resources, backend, dynamic_args))
    /\ pc' = "in_phase2"
    /\ UNCHANGED <<cls, sig, static_argnums, static_kwarg_names, axis_sizes, axis_resources,
                   backend, args, kwargs, bound_args, dynamic_args, dynamic_arg_shapes,
                   dynamic_arg_names, out_axes, cls_calls, infer_log, results_treedefs, result, inferVars, memVars>>

\* function_to_xmap runs under the transform (lines 339-341)
Phase2Body ==
    /\ pc = "in_phase2"
    /\ LET traced == [j \in DOMAIN dynamic_args |-> Trace(dynamic_args[j])]
           arguments == construct_arguments(sig.parameters, bound_args, dynamic_arg_names, traced)
           inst == Instantiate(cls, arguments)
       IN  /\ bound_args' = arguments
           /\ cls_calls' = Append(cls_calls, [arguments |-> WithoutSelf(arguments), inst |-> inst])
    /\ pc' = "phase2_ran"
    /\ UNCHANGED <<cls, sig, static_argnums, static_kwarg_names, axis_sizes, axis_resources,
                   backend, args, kwargs, dynamic_args, dynamic_arg_shapes,
                   dynamic_arg_names, out_axes, xmap_calls, infer_log, results_treedefs, result, inferVars, memVars>>

\* the second transform call returns the instance; the wrapper returns it (line 347)
Phase2Return ==
    /\ pc = "phase2_ran"
    /\ LET inst == Materialize(cls_calls[Len(cls_calls)].inst)
       IN  /\ xmap_calls' = [xmap_calls EXCEPT ![2].status = "returned", ![2].returned = inst]
           /\ result' = inst
    /\ pc' = "returned"
    /\ UNCHANGED <<cls, sig, static_argnums, static_kwarg_names, axis_sizes, axis_resources,
                   backend, args, kwargs, bound_args, dynamic_args, dynamic_arg_shapes,
                   dynamic_arg_names, out_axes, cls_calls, infer_log, results_treedefs, inferVars, memVars>>

-----------------------------------------------------------------------------
(* The classes, arguments and static sets xmapped_init is run on *)

\* a constructor parameter: (annotation, has_default)
ParamCases ==
    {<<Array_class_getitem(Batch), FALSE>>,
     <<OpaqueT, FALSE>>,
     <<OpaqueT, TRUE>>,
     <<AnnotatedT(OpaqueT, <<Doc>>), FALSE>>}

\* parameter lists Python accepts: no parameter without a default after one with
ParamLists ==
    {ps \in SeqsUpTo(ParamCases, MaxParams) :
        \A i, j \in DOMAIN ps : (i < j /\ ps[i][2]) => ps[j][2]}

MkParams(ps) == [i \in DOMAIN ps |-> Param(FieldNames[i], ps[i][1], ps[i][2], PyLeaf(0))]
MkClass(ps) == ModuleT([i \in DOMAIN ps |-> Field(FieldNames[i], ps[i][1], FALSE)])

ArgValues == {NdArray, PyLeaf(7)}

\* what the caller passes for static_argnums and static_kwarg_names
StaticChoices ==
    {<<NoneV, NoneV>>,
     <<PyLeaf(0), NoneV>>,
     <<NoneV, TupleV(<<Str("a")>>)>>,
     <<NoneV, TupleV(<<Str("b")>>)>>,
     <<TupleV(<<PyLeaf(0)>>), TupleV(<<Str("b")>>)>>}

TableChoices == {<<NoneV, NoneV, NoneV>>, <<Dict(1), Dict(2), Str("cpu")>>}

\* keyword arguments for a subset of the parameters after the first npos
KwargsFor(ps, npos) ==
    UNION {[names -> ArgValues] :
              names \in SUBSET {FieldNames[i] : i \in (npos + 1)..Len(ps)}}

InitXmappedInit ==
    /\ InferIdle
    /\ MemIdle
    /\ \E ps \in ParamLists, st \in StaticChoices, tb \in TableChoices :
         /\ cls = MkClass(ps)
         /\ sig = [parameters |-> <<SelfParam>> \o MkParams(ps), return_annotation |-> NoneV]
         /\ static_argnums = ensure_tuple(st[1])
         /\ static_kwarg_names = ensure_tuple(st[2])
         /\ axis_sizes = OrEmptyDict(tb[1])
         /\ axis_resources = OrEmptyDict(tb[2])
         /\ backend = tb[3]
         /\ \E npos \in 0..Len(ps) :
              /\ args \in [1..npos -> ArgValues]
              /\ kwargs \in KwargsFor(ps, npos)
    /\ pc = "start"
    /\ bound_args = NoneV
    /\ dynamic_args = <<>> /\ dynamic_arg_shapes = <<>> /\ dynamic_arg_names = <<>>
    /\ out_axes = NoneV
    /\ xmap_calls = <<>> /\ cls_calls = <<>> /\ infer_log = <<>>
    /\ results_treedefs = NoneV
    /\ result = NotRun

NextXmappedInit ==
    \/ WrapperCall
    \/ Phase1Issue
    \/ Phase1Body
    \/ Phase1Return
    \/ Phase2Issue
    \/ Phase2Body
    \/ Phase2Return

SpecXmappedInit == InitXmappedInit /\ [][NextXmappedInit]_vars

-----------------------------------------------------------------------------
(* Claims about xmapped_init, checked under SpecXmappedInit *)

\* the value the caller passed for parameter number n of sig.parameters (self is 1)
CallerValue(n) ==
    IF sig.parameters[n].name \in DOMAIN kwargs THEN kwargs[sig.parameters[n].name]
    ELSE args[n - 1]

\* static as the claim defines it: by name, or by position not counting self
StaticByClaim(n) ==
    \/ In(Str(sig.parameters[n].name), static_kwarg_names)
    \/ In(PyLeaf(n - 2), static_argnums)

\* the parameters that are not static, in signature order
NonStaticParams == SelectSeq([n \in 1..(Len(sig.parameters) - 1) |-> n + 1],
                             LAMBDA n : ~StaticByClaim(n))

\* C1: a successful call of the wrapper issues exactly two transform calls, the
\* second only after the first has returned, both with the same input axis specs;
\* the second call's output axes are the unwrapped axis-spec tree that phase 1
\* captured by inference on the instance it constructed, and the wrapper returns
\* what the second call returned.
C1_TwoPhaseProtocol ==
    /\ Len(xmap_calls) <= 2
    /\ Len(xmap_calls) = 2 => xmap_calls[1].status = "returned"
    /\ pc = "returned" =>
         /\ Len(xmap_calls) = 2
         /\ xmap_calls[2].status = "returned"
         /\ xmap_calls[1].fun = "initial_xmap"
         /\ xmap_calls[2].fun = "function_to_xmap"
         /\ xmap_calls[1].in_axes = xmap_calls[2].in_axes
         /\ xmap_calls[2].out_axes = unwrap_axis_names(infer_named_axes(cls_calls[1].inst, cls))
         /\ result = xmap_calls[2].returned

\* C1 witness: a call with a dynamic named-axis argument has returned an instance
C1_Witness ==
    /\ pc = "returned"
    /\ Len(dynamic_args) >= 1
    /\ \E i \in DOMAIN cls.fields : cls.fields[i].type = Array_class_getitem(Batch)
    /\ result.k = "module"

\* C2: the wrapper takes every argument list the constructor takes, argument lists
\* that leave out parameters with defaults included: it does not raise while binding
\* and classifying them (stated for classes whose annotations all infer).
C2_SameCallingConvention ==
    (/\ pc # "start"
     /\ ConstructorAccepts(sig.parameters, args, kwargs)
     /\ \A n \in DOMAIN sig.parameters : sig.parameters[n].annotation.k # "Annotated")
    => pc # "raised"

\* C3: a parameter is static when its name is in static_kwarg_names or its position
\* (self not counted) is in static_argnums, whatever its position if its name is
\* in the set.  infer_named_axes is never run on a static parameter, the input axis
\* specs and the arguments of both transform calls hold the non-static parameters
\* only, and the constructor receives the caller's value for it in both phases.
C3_StaticParameters ==
    (pc \notin {"none", "start"} /\ bound_args # NoneV) =>
        /\ \A n \in 2..Len(sig.parameters) :
              StaticByClaim(n) =>
                /\ ~In(sig.parameters[n].name, infer_log)
                /\ ~In(sig.parameters[n].name, dynamic_arg_names)
                /\ \A j \in DOMAIN cls_calls :
                      cls_calls[j].arguments[sig.parameters[n].name] = CallerValue(n)
        /\ \A c \in DOMAIN xmap_calls :
              /\ xmap_calls[c].args = [j \in DOMAIN NonStaticParams |-> CallerValue(NonStaticParams[j])]
              /\ Len(xmap_calls[c].in_axes.items) = Len(NonStaticParams)

\* C3 witness: a call has returned in which the second parameter is static by its
\* name alone and the first is dynamic
C3_Witness ==
    /\ pc = "returned"
    /\ Len(sig.parameters) = 3
    /\ In(Str("b"), static_kwarg_names)
    /\ ~In(PyLeaf(1), static_argnums)
    /\ dynamic_arg_names = <<"a">>
    /\ Len(cls_calls) = 2

-----------------------------------------------------------------------------
(* auto_xmap *)

\* NotImplementedError("kwargs not yet supported")
KwargsNotSupported ==
    [k |-> "raise", exc |-> "NotImplementedError", msg |-> "kwargs not yet supported"]

\* jax.tree_flatten(results)[1]: the tree with its leaves left out
RECURSIVE treedef(_)
treedef(v) ==
    IF v.k \in {"tuple", "list", "namedtuple"}
    THEN [v EXCEPT !.items = [i \in DOMAIN v.items |-> treedef(v.items[i])]]
    ELSE IF v.k = "module"
    THEN tree_unflatten(v, [j \in DOMAIN dynamic_values(v) |-> treedef(dynamic_values(v)[j])])
    ELSE IF v.k = "None" THEN v
    ELSE [k |-> "*"]

\* jax.tree_unflatten(treedef, leaves): the n-th leaf goes where the n-th "*" is;
\* Fill returns the tree and the number of leaves it used
RECURSIVE Fill(_, _, _)
RECURSIVE FillSeq(_, _, _)
FillSeq(ts, leaves, n) ==
    IF ts = <<>> THEN [trees |-> <<>>, n |-> n]
    ELSE LET h == Fill(Head(ts), leaves, n)
             r == FillSeq(Tail(ts), leaves, h.n)
         IN  [trees |-> <<h.tree>> \o r.trees, n |-> r.n]
Fill(t, leaves, n) ==
    IF t.k \in {"tuple", "list", "namedtuple"}
    THEN LET r == FillSeq(t.items, leaves, n)
         IN  [tree |-> [t EXCEPT !.items = r.trees], n |-> r.n]
    ELSE IF t.k = "module"
    THEN LET r == FillSeq(dynamic_values(t), leaves, n)
         IN  [tree |-> tree_unflatten(t, r.trees), n |-> r.n]
    ELSE IF t.k = "None" THEN [tree |-> t, n |-> n]
    ELSE [tree |-> leaves[n + 1], n |-> n + 1]

\* line 209: arg_shapes, or the first exception inference raised
arg_shapes_of(parameters, pargs) ==
    LET n == IF Len(pargs) < Len(parameters) THEN Len(pargs) ELSE Len(parameters)
        shapes == [i \in 1..n |-> infer_named_axes(pargs[i], parameters[i].annotation)]
    IN  IF FirstRaise(shapes) # NoneV THEN FirstRaise(shapes) ELSE ListV(shapes)

\* axis_extracting_function up to the transform call (lines 204-215)
AutoCall ==
    /\ pc = "ax_start"
    /\ LET arg_shapes == arg_shapes_of(sig.parameters, args)
           return_axes == infer_leaf_axes(sig.return_annotation)
       IN  IF IsRaise(arg_shapes)
           THEN pc' = "raised" /\ result' = arg_shapes
                /\ UNCHANGED <<dynamic_arg_shapes, out_axes>>
           ELSE IF kwargs # <<>>
           THEN pc' = "raised" /\ result' = KwargsNotSupported
                /\ UNCHANGED <<dynamic_arg_shapes, out_axes>>
           ELSE IF IsRaise(return_axes)
           THEN pc' = "raised" /\ result' = return_axes
                /\ UNCHANGED <<dynamic_arg_shapes, out_axes>>
           ELSE /\ pc' = "ax_issue"
                /\ dynamic_arg_shapes' = arg_shapes.items
                /\ out_axes' = return_axes
                /\ UNCHANGED result
    /\ UNCHANGED <<cls, sig, static_argnums, static_kwarg_names, axis_sizes, axis_resources,
                   backend, args, kwargs, bound_args, dynamic_args, dynamic_arg_names,
                   xmap_calls, cls_calls, infer_log, results_treedefs, inferVars, memVars>>

\* lines 234-235: f = xmap(function_to_xmap, in_axes=unwrap_axis_names(arg_shapes),
\* out_axes=unwrap_axis_names(return_axes)); f(*args, **kwargs) is called.  No table
\* is passed: the transform uses its defaults ({} and {}, backend None).
AutoXmapIssue ==
    /\ pc = "ax_issue"
    /\ xmap_calls' = Append(xmap_calls,
            XmapCall("function_to_xmap", unwrap_axis_names(ListV(dynamic_arg_shapes)),
                     unwrap_axis_names(out_axes), EmptyDict, EmptyDict, NoneV, args))
    /\ pc' = "ax_in_xmap"
    /\ UNCHANGED <<cls, sig, static_argnums, static_kwarg_names, axis_sizes, axis_resources,
                   backend, args, kwargs, bound_args, dynamic_args, dynamic_arg_shapes,
                   dynamic_arg_names, out_axes, cls_calls, infer_log, results_treedefs,
                   result, inferVars, memVars>>

\* function_to_xmap runs under the transform (lines 220-227): fun is called once,
\* its result is flattened and the treedef is kept
AutoBody ==
    /\ pc = "ax_in_xmap"
    /\ LET traced == [j \in DOMAIN args |-> Trace(args[j])]
           results == Trace(cls.returns)
       IN  /\ cls_calls' = Append(cls_calls, [arguments |-> traced, inst |-> results])
           /\ results_treedefs' = treedef(results)
    /\ pc' = "ax_ran"
    /\ UNCHANGED <<cls, sig, static_argnums, static_kwarg_names, axis_sizes, axis_resources,
                   backend, args, kwargs, bound_args, dynamic_args, dynamic_arg_shapes,
                   dynamic_arg_names, out_axes, xmap_calls, infer_log, result, inferVars, memVars>>

\* the transform returns the leaves; lines 236-237 rebuild and return the result
AutoReturn ==
    /\ pc = "ax_ran"
    /\ LET result_leaves == [i \in DOMAIN tree_leaves(cls_calls[1].inst) |->
                                Materialize(tree_leaves(cls_calls[1].inst)[i])]
       IN  /\ xmap_calls' = [xmap_calls EXCEPT ![1].status = "returned",
                                               ![1].returned = ListV(result_leaves)]
           /\ result' = Fill(results_treedefs, result_leaves, 0).tree
    /\ pc' = "returned"
    /\ UNCHANGED <<cls, sig, static_argnums, static_kwarg_names, axis_sizes, axis_resources,
                   backend, args, kwargs, bound_args, dynamic_args, dynamic_arg_shapes,
                   dynamic_arg_names, out_axes, cls_calls, infer_log, results_treedefs,
                   inferVars, memVars>>

\* the functions auto_xmap is run on: parameter annotations, return annotation and
\* what the function returns
AutoParamTypes ==
    {Array_class_getitem(Batch), OpaqueT, AnnotatedT(OpaqueT, <<Doc>>),
     Shaped_class_getitem(Shard, Array_class_getitem(Batch))}

ReturnCases ==
    {<<OpaqueT, NdArray>>,
     <<Array_class_getitem(Batch), NdArray>>,
     <<PairT, PairV>>,
     <<OpaqueT, TupleV(<<NdArray, NoneV, NdArray>>)>>}

InitAutoXmap ==
    /\ InferIdle
    /\ MemIdle
    /\ \E ts \in SeqsUpTo(AutoParamTypes, MaxParams), rc \in ReturnCases, tb \in TableChoices :
         /\ cls = [k |-> "function", returns |-> rc[2]]
         /\ sig = [parameters |-> [i \in DOMAIN ts |-> Param(FieldNames[i], ts[i], FALSE, NoneV)],
                   return_annotation |-> rc[1]]
         /\ axis_sizes = tb[1]
         /\ axis_resources = tb[2]
         /\ backend = tb[3]
         /\ \E npos \in 0..Len(ts) :
              /\ args \in [1..npos -> ArgValues]
              /\ kwargs \in UNION {[names -> ArgValues] :
                                      names \in SUBSET {FieldNames[i] : i \in (npos + 1)..Len(ts)}}
              /\ npos + Cardinality(DOMAIN kwargs) = Len(ts)
    /\ static_argnums = <<>> /\ static_kwarg_names = <<>>
    /\ pc = "ax_start"
    /\ bound_args = NoneV
    /\ dynamic_args = <<>> /\ dynamic_arg_shapes = <<>> /\ dynamic_arg_names = <<>>
    /\ out_axes = NoneV
    /\ xmap_calls = <<>> /\ cls_calls = <<>> /\ infer_log = <<>>
    /\ results_treedefs = NoneV
    /\ result = NotRun

NextAutoXmap ==
    \/ AutoCall
    \/ AutoXmapIssue
    \/ AutoBody
    \/ AutoReturn

SpecAutoXmap == InitAutoXmap /\ [][NextAutoXmap]_vars

-----------------------------------------------------------------------------
(* Claims about auto_xmap, checked under SpecAutoXmap *)

\* C4: a call with positional arguments only and successful inference issues
\* exactly one transform call, configured with the unwrapped per-argument input
\* axes, the unwrapped output axes and the axis-size and axis-resource tables the
\* caller gave to auto_xmap.
C4_OneConfiguredCall ==
    (pc = "returned") =>
        /\ Len(xmap_calls) = 1
        /\ xmap_calls[1].in_axes = unwrap_axis_names(arg_shapes_of(sig.parameters, args))
        /\ xmap_calls[1].out_axes = unwrap_axis_names(infer_leaf_axes(sig.return_annotation))
        /\ axis_sizes # NoneV => xmap_calls[1].axis_sizes = axis_sizes
        /\ axis_resources # NoneV => xmap_calls[1].axis_resources = axis_resources

\* C5: a call with at least one keyword argument fails with "kwargs not yet
\* supported" and issues no transform call, whatever the positional arguments and
\* their annotations are.
C5_KwargsRejected ==
    (pc # "ax_start" /\ kwargs # <<>>) =>
        /\ pc = "raised"
        /\ result = KwargsNotSupported
        /\ xmap_calls = <<>>

-----------------------------------------------------------------------------
(* Further claims about axis inference, checked under SpecInfer *)

\* C12: infer_named_axes(value, T), T an annotated wrapper around base type B: with
\* zero or more than one AxisNames payload the call fails with the
\* ambiguous-annotation error; with exactly one payload P, when inference on
\* (value, B) yields the bare empty case the result is P itself, and when it yields
\* an axis spec or a tree of them the result has the same shape and every leaf is
\* P's tokens followed by the corresponding leaf's tokens.
C12_AnnotatedNamedAxes ==
    (named_axes # NotRun /\ tpe.k = "Annotated") =>
        LET ps == Payloads(tpe)
            inner == infer_named_axes(value, tpe.base)
        IN  IF Len(ps) # 1 THEN named_axes = Raise("ValueError")
            ELSE IF IsRaise(inner) THEN TRUE
            ELSE IF inner = NoneV THEN named_axes = ps[1]
            ELSE /\ ~IsRaise(named_axes)
                 /\ AllUnnamed(named_axes) = AllUnnamed(inner)
                 /\ Len(tree_leaves(named_axes)) = Len(tree_leaves(inner))
                 /\ \A i \in DOMAIN tree_leaves(inner) :
                        tree_leaves(named_axes)[i] =
                            AxisNames(ps[1].names \o tree_leaves(inner)[i].names)

\* an annotated wrapper with one payload around a value whose inference gives a tree
\* of two leaves or more, one of them with names of its own
C12_Witness ==
    /\ named_axes # NotRun
    /\ tpe.k = "Annotated"
    /\ Len(Payloads(tpe)) = 1
    /\ ~IsRaise(named_axes)
    /\ named_axes.k # "AxisNames"
    /\ Len(tree_leaves(named_axes)) >= 2
    /\ \E i \in DOMAIN tree_leaves(named_axes) :
          Len(tree_leaves(named_axes)[i].names) >= 2
          /\ tree_leaves(named_axes)[i].names[2] # Ellipsis

\* the fields not marked static, in declaration order
NonStatic(fields) == SelectSeq(fields, LAMBDA f : ~f.static)

\* C13: infer_leaf_axes on a record-structure type returns the concatenation, in
\* field declaration order, of the leaf lists inferred from the declared types of
\* its non-static fields (it raises when inferring one of them raises); a field
\* marked static contributes zero leaves, there and in
\* infer_named_axes_from_module, which leaves a static field as it is; for Pair
\* the leaves are ("batch",) then ("batch", "hidden").
C13_RecordLeafConcatenation ==
    /\ (leaf_axes # NotRun /\ tpe.k = "Module") =>
          LET ns == NonStatic(tpe.fields)
              per_field == [j \in DOMAIN ns |-> infer_leaf_axes(ns[j].type)]
          IN  /\ IF \E j \in DOMAIN ns : IsRaise(per_field[j])
                 THEN IsRaise(leaf_axes)
                 ELSE leaf_axes = ListV(Flatten([j \in DOMAIN ns |-> per_field[j].items]))
              /\ leaf_axes = infer_leaf_axes(ModuleT(ns))
              /\ tpe = PairT =>
                     leaf_axes = ListV(<<AxisNames(<<Batch>>), AxisNames(<<Batch, Hidden>>)>>)
    /\ (module_axes # NotRun /\ ~IsRaise(module_axes)) =>
          LET ns == NonStatic(value.fields)
          IN  /\ tree_leaves(module_axes) =
                     Flatten([j \in DOMAIN ns |->
                                 tree_leaves(infer_named_axes(ns[j].value, ns[j].type))])
              /\ \A i \in DOMAIN value.fields :
                     value.fields[i].static => module_axes.fields[i] = value.fields[i]

\* both functions have run on a class with a static field that holds an array and
\* a non-static field declared with axis names
C13_Witness ==
    /\ leaf_axes # NotRun
    /\ module_axes # NotRun
    /\ tpe.k = "Module"
    /\ value.k = "module"
    /\ \E i, j \in DOMAIN tpe.fields :
          /\ tpe.fields[i].static
          /\ value.fields[i].value = NdArray
          /\ ~tpe.fields[j].static
          /\ tpe.fields[j].type = Array_class_getitem(TupleV(<<Batch, Hidden>>))
    /\ leaf_axes = ListV(<<AxisNames(<<Batch, Hidden>>)>>)
    /\ Len(tree_leaves(module_axes)) = 1

-----------------------------------------------------------------------------
(* log_memory_usage (levanter/callbacks.py): a daemon thread writes a memory
   profile again and again; the hook runs "go tool pprof -tags" on it and logs
   what it prints *)

\* the hook returned normally
Returned == [k |-> "returned"]

File(snap, chunks) == [k |-> "file", snap |-> snap, chunks |-> chunks]

\* the i-th file created, as a name refers to it and as a process holds it open
Inode(i) == [k |-> "inode", i |-> i]

\* what a read of file f returns now: the snapshot it belongs to and the chunks
\* written into it so far; NoneV for no file
Content(f) == IF f = NoneV THEN NoneV ELSE File(f.i, inodes[f.i])

\* (mutant) a sampler that saves the snapshot under the name tempfile_name itself
SamplerOpen_InPlace ==
    /\ sampler_pc = "save"
    /\ snapshots < MaxSnapshots
    /\ snapshots' = snapshots + 1
    /\ inodes' = Append(inodes, 0)
    /\ new_file' = Inode(Len(inodes) + 1)
    /\ prof_file' = Inode(Len(inodes) + 1)
    /\ sampler_pc' = "writing"
    /\ UNCHANGED <<pprof_fd, go_installed, log_individual_devices, step,
                   training, hook_log, metrics, warnings, inferVars, wrapVars>>

\* jax.profiler.save_device_memory_profile(f"{tempfile_name}.new") creates the file
SamplerOpen ==
    /\ sampler_pc = "save"
    /\ snapshots < MaxSnapshots
    /\ snapshots' = snapshots + 1
    /\ inodes' = Append(inodes, 0)
    /\ new_file' = Inode(Len(inodes) + 1)
    /\ sampler_pc' = "writing"
    /\ UNCHANGED <<prof_file, pprof_fd, go_installed, log_individual_devices, step,
                   training, hook_log, metrics, warnings, inferVars, wrapVars>>

\* ... and writes the snapshot into it, a chunk at a time
SamplerWrite ==
    /\ sampler_pc = "writing"
    /\ inodes' = [inodes EXCEPT ![new_file.i] = @ + 1]
    /\ sampler_pc' = IF inodes[new_file.i] + 1 >= SnapshotChunks THEN "rename" ELSE "writing"
    /\ UNCHANGED <<new_file, prof_file, pprof_fd, snapshots, go_installed,
                   log_individual_devices, step, training, hook_log, metrics, warnings,
                   inferVars, wrapVars>>

\* posix.rename(f"{tempfile_name}.new", tempfile_name): the name tempfile_name now
\* names the new file; the file it named before stays as it is for who has it open
SamplerRename ==
    /\ sampler_pc = "rename"
    /\ prof_file' = new_file
    /\ new_file' = NoneV
    /\ sampler_pc' = "sleep"
    /\ UNCHANGED <<inodes, pprof_fd, snapshots, go_installed, log_individual_devices, step,
                   training, hook_log, metrics, warnings, inferVars, wrapVars>>

\* time.sleep(sample_interval) returns
SamplerWake ==
    /\ sampler_pc = "sleep"
    /\ sampler_pc' = "save"
    /\ UNCHANGED <<inodes, new_file, prof_file, pprof_fd, snapshots, go_installed,
                   log_individual_devices, step, training, hook_log, metrics, warnings,
                   inferVars, wrapVars>>

\* what "go tool pprof -tags" prints for a profile: whether the text holds
\* "kind: Total ", whether the total is written with a decimal point, the kinds
\* and the devices it lists
PprofOutputs ==
    {[marker |-> TRUE, total_decimal |-> TRUE, kinds |-> {"buffer", "executable"}, devices |-> {"TFRT_CPU_0"}],
     [marker |-> TRUE, total_decimal |-> FALSE, kinds |-> {"buffer"}, devices |-> {"gpu:0"}],
     [marker |-> FALSE, total_decimal |-> FALSE, kinds |-> {}, devices |-> {}]}

\* the metrics lines 232-257 log for an output at a step
metrics_of(output, s, individual) ==
    (IF output.total_decimal THEN {[key |-> <<"memory", "total">>, step |-> s]} ELSE {})
    \cup (IF individual THEN {[key |-> <<"memory", "device", d>>, step |-> s] : d \in output.devices} ELSE {})
    \cup {[key |-> <<"memory", kd>>, step |-> s] : kd \in output.kinds}

\* subprocess.run(args=["go", "tool", "pprof", "-tags", tempfile_name], ...): starting
\* the program raises FileNotFoundError when there is no go; otherwise pprof exits
\* non-zero when it cannot read a profile, and may exit non-zero for its own reasons
subprocess_run(installed, file, rc) ==
    IF ~installed THEN Raise("FileNotFoundError")
    ELSE IF file = NoneV THEN [k |-> "CompletedProcess", returncode |-> 1]
    ELSE [k |-> "CompletedProcess", returncode |-> rc]

\* an entry of hook_log: the step, why the subprocess failed ("ok" when it did not),
\* what pprof read, how the hook ended, whether it warned, the metrics it logged
HookEntry(s, cause, read, outcome, warned, logged) ==
    [step |-> s, cause |-> cause, read |-> read,
     outcome |-> outcome, warned |-> warned, logged |-> logged]

\* the hook log_memory_usage(step) is called and subprocess.run starts the program
\* (line 204): without go the call raises; with go, pprof opens the path
\* tempfile_name, and the hook waits for it while the thread goes on
StartPprof ==
    /\ training = "running"
    /\ pprof_fd = NotRun
    /\ step < MaxSteps
    /\ step' = step + 1
    /\ LET process == subprocess_run(go_installed, prof_file, 0)
       IN  IF IsRaise(process)
           THEN /\ training' = "aborted"
                /\ hook_log' = Append(hook_log,
                      HookEntry(step + 1, "not_started", NoneV, process, FALSE, {}))
                /\ UNCHANGED pprof_fd
           ELSE /\ pprof_fd' = prof_file
                /\ UNCHANGED <<training, hook_log>>
    /\ UNCHANGED <<sampler_pc, inodes, new_file, prof_file, snapshots, go_installed,
                   log_individual_devices, metrics, warnings, inferVars, wrapVars>>

\* pprof reads the file it opened and exits; the hook goes on with what it printed
\* (lines 210-257)
LogMemoryUsage ==
    /\ training = "running"
    /\ pprof_fd # NotRun
    /\ pprof_fd' = NotRun
    /\ \E rc \in {0, 1}, output \in PprofOutputs :
         LET process == subprocess_run(go_installed, pprof_fd, rc)
             read == Content(pprof_fd)
         IN  IF process.returncode # 0
             THEN /\ warnings' = warnings + 1
                  /\ hook_log' = Append(hook_log,
                        HookEntry(step, IF pprof_fd = NoneV THEN "no_profile" ELSE "nonzero_exit",
                                  read, Returned, TRUE, {}))
                  /\ UNCHANGED <<metrics, training>>
             ELSE IF ~output.marker
             THEN /\ training' = "aborted"
                  /\ hook_log' = Append(hook_log,
                        HookEntry(step, "ok", read, Raise("ValueError"), FALSE, {}))
                  /\ UNCHANGED <<metrics, warnings>>
             ELSE LET logged == metrics_of(output, step, log_individual_devices)
                  IN  /\ metrics' = metrics \cup logged
                      /\ hook_log' = Append(hook_log,
                            HookEntry(step, "ok", read, Returned, FALSE, logged))
                      /\ UNCHANGED <<warnings, training>>
    /\ UNCHANGED <<sampler_pc, inodes, new_file, prof_file, snapshots, go_installed,
                   log_individual_devices, step, inferVars, wrapVars>>

\* after log_memory_usage(sample_interval, log_individual_devices) has started the thread
InitMemory ==
    /\ InferIdle
    /\ WrapIdle
    /\ sampler_pc = "save"
    /\ inodes = <<>>
    /\ new_file = NoneV
    /\ prof_file = NoneV
    /\ pprof_fd = NotRun
    /\ snapshots = 0
    /\ go_installed \in BOOLEAN
    /\ log_individual_devices \in BOOLEAN
    /\ step = 0
    /\ training = "running"
    /\ hook_log = <<>>
    /\ metrics = {}
    /\ warnings = 0

NextMemory ==
    \/ SamplerOpen
    \/ SamplerWrite
    \/ SamplerRename
    \/ SamplerWake
    \/ StartPprof
    \/ LogMemoryUsage

SpecMemory == InitMemory /\ [][NextMemory]_vars

-----------------------------------------------------------------------------
(* Claims about the memory hook, checked under SpecMemory *)

\* C10: whenever the memory-profiling subprocess invocation fails (the analysis
\* tool cannot be started, exits non-zero, or no profile file exists yet) the hook
\* emits a warning, logs no metric for that step and returns normally, so that later
\* hook invocations still run.
C10_GracefulDegradation ==
    \A i \in DOMAIN hook_log :
        hook_log[i].cause \in {"not_started", "nonzero_exit", "no_profile"} =>
            /\ hook_log[i].warned
            /\ hook_log[i].logged = {}
            /\ hook_log[i].outcome = Returned
            /\ \A m \in metrics : m.step # hook_log[i].step

\* a file holds the complete content of a finished snapshot
Complete(f) == f.i \in 1..snapshots /\ inodes[f.i] = SnapshotChunks

\* C11: under any interleaving of the sampling thread (write the snapshot to the
\* ".new" file, rename it onto the profile path, sleep, forever) with reads of the
\* profile path by the hook, a reader never observes a partially written profile:
\* the profile path names no file or a complete one, the file a running pprof has
\* open is complete, and every read saw no file or the complete content of a
\* finished snapshot.
C11_NoPartialRead ==
    /\ prof_file # NoneV => Complete(prof_file)
    /\ pprof_fd \notin {NotRun, NoneV} => Complete(pprof_fd)
    /\ \A i \in DOMAIN hook_log :
          hook_log[i].read # NoneV =>
              /\ hook_log[i].read.snap \in 1..snapshots
              /\ hook_log[i].read.chunks = SnapshotChunks

\* a read has returned a snapshot, and now a pprof holds the first file open
\* after a rename has put the second one in its place
C11_Witness ==
    /\ \E i \in DOMAIN hook_log : hook_log[i].read # NoneV
    /\ pprof_fd = Inode(1)
    /\ prof_file = Inode(2)

-----------------------------------------------------------------------------
(* The whole program: any one of the four machines *)

Init == InitInfer \/ InitXmappedInit \/ InitAutoXmap \/ InitMemory

Next == NextInfer \/ NextXmappedInit \/ NextAutoXmap \/ NextMemory

Spec == Init /\ [][Next]_vars

====
